---- MODULE Spec2Model ----
(***************************************************************************)
(* Session memory layer of the Telegram webhook relay                      *)
(* (src/webhook/__init__.py): the two memory stores, the history window,   *)
(* the bot-command extraction and the request handler `main`.              *)
(*                                                                         *)
(* Texts are records [s, pad]: the characters s followed by pad further    *)
(* characters that are not spelled out, so that a text longer than the     *)
(* Telegram cap can be a value of the model.  Message texts, which the     *)
(* command extraction scans, are plain character sequences.                *)
(***************************************************************************)
EXTENDS Integers, Sequences, FiniteSets, TLC

VARIABLES
    backend,     \* which store `memory_store` is: "memory" | "table"   (l.111-118)
    max_turns,   \* MEMORY_MAX_TURNS as configured                       (l.16)
    now,         \* time.time()
    mem,         \* InMemoryStore._store : chat_key -> NoRec | [messages, exp]
    table,       \* the Azure table     : chat_key -> NoRec | [messagesJson]
    running,     \* the handler that holds the event loop (0: loop is free)
    received,    \* number of requests taken so far
    pc,          \* position of each handler invocation in `main`
    loc,         \* the locals of each handler invocation
    fn_in,       \* argument of the pure function under check
    fn_out       \* its result

vars == <<backend, max_turns, now, mem, table, running, received, pc, loc, fn_in, fn_out>>

----------------------------------------------------------------------------
(* Bounds of the model *)

MaxRequests == 3      \* requests handled in one behaviour
MaxTurnsHi == 3       \* MEMORY_MAX_TURNS is drawn from -1..MaxTurnsHi
MaxClipLen == 10      \* clip_history inputs: histories of up to MaxClipLen turns
MaxTextLen == 3       \* extract_bot_command inputs: texts of up to MaxTextLen characters
MaxStoreLen == 2      \* store calls: histories of up to MaxStoreLen turns
MaxOverlap == 2       \* requests handled in a behaviour of overlapping invocations
MaxStoreCalls == 3    \* calls of InMemoryStore in a behaviour of its statements

(* Program constants *)

TelegramCap == 4096   \* send_telegram_message: text[:4096]
MEMORY_TTL_SEC == 1   \* the TTL, configured to one tick of the clock

\* the clock runs from 0 to one tick past the TTL, where a record written at 0
\* has expired
MaxTime == MEMORY_TTL_SEC + 1

Reqs == {1, 2}        \* concurrent handler invocations
Chats == {"c1", "c2"}

NoRec == [absent |-> TRUE]

Min(a, b) == IF a < b THEN a ELSE b
Max(a, b) == IF a > b THEN a ELSE b

----------------------------------------------------------------------------
(* Python string and list primitives *)

\* str.lower() on one character
LowerChar(c) ==
    CASE c = "R" -> "r"
      [] c = "S" -> "s"
      [] c = "H" -> "h"
      [] c = "E" -> "e"
      [] c = "T" -> "t"
      [] c = "M" -> "m"
      [] c = "B" -> "b"
      [] OTHER -> c

\* str.lower()
PyLower(s) == [i \in 1..Len(s) |-> LowerChar(s[i])]

\* str.isspace() on one character
IsSpace(c) == c \in {" ", "\n", "\t"}

\* seq[:k] for any integer k
PySliceTo(s, k) ==
    IF k >= 0 THEN SubSeq(s, 1, Min(k, Len(s)))
    ELSE SubSeq(s, 1, Max(0, Len(s) + k))

\* seq[-k:] for k > 0
PySliceLast(s, k) == SubSeq(s, Max(0, Len(s) - k) + 1, Len(s))

\* s.split("@", 1)[0]: the part of s before its first "@"
PySplitAt(s) ==
    LET ats == {i \in 1..Len(s) : s[i] = "@"}
    IN  IF ats = {} THEN s
        ELSE SubSeq(s, 1, (CHOOSE i \in ats : \A j \in ats : i <= j) - 1)

\* s.split(): TRUE when the list of tokens is empty
PySplitEmpty(s) == \A i \in 1..Len(s) : IsSpace(s[i])

\* s.split()[0] when there is a token
PySplitFirst(s) ==
    LET first == CHOOSE i \in 1..Len(s) :
                    /\ ~IsSpace(s[i])
                    /\ \A j \in 1..(i - 1) : IsSpace(s[j])
        stops == {i \in first..Len(s) : IsSpace(s[i])}
        last  == IF stops = {} THEN Len(s)
                 ELSE (CHOOSE i \in stops : \A j \in stops : i <= j) - 1
    IN  SubSeq(s, first, last)

\* s.startswith("/")
StartsWithSlash(s) == Len(s) > 0 /\ s[1] = "/"

----------------------------------------------------------------------------
(* Texts with a length *)

Txt(s, pad) == [s |-> s, pad |-> pad]
Str(s) == Txt(s, 0)
TxtLen(t) == Len(t.s) + t.pad

\* text[:k] for k >= 0
TxtSliceTo(t, k) ==
    IF k >= Len(t.s) THEN Txt(t.s, Min(t.pad, k - Len(t.s)))
    ELSE Txt(SubSeq(t.s, 1, k), 0)

----------------------------------------------------------------------------
(* Constants of the program *)

SYSTEM_PROMPT == Txt(<<"Y", "o", "u", " ", "a", "r", "e">>, 43)

SlashStart == <<"/", "s", "t", "a", "r", "t">>
SlashHelp  == <<"/", "h", "e", "l", "p">>
SlashReset == <<"/", "r", "e", "s", "e", "t">>

GreetingReply == Txt(<<"H", "i", "!">>, 52)
HelpReply     == Txt(<<"S", "e", "n", "d">>, 75)
ResetReply    == Txt(<<"C", "l", "e", "a", "r", "e", "d">>, 44)
UnknownReply  == Txt(<<"S", "o", "r", "r", "y">>, 33)

\* COMMAND_RESPONSES.get(command, "Sorry, I don't recognize that command.")
COMMAND_RESPONSES(command) ==
    CASE command = SlashStart -> GreetingReply
      [] command = SlashHelp  -> HelpReply
      [] command = SlashReset -> ResetReply
      [] OTHER -> UnknownReply

\* f"... Error: {type(e).__name__}"
ErrorAnswer == Txt(<<"E", "r", "r", "o", "r", ":">>, 22)

----------------------------------------------------------------------------
(* Turns and histories *)

Turn(role, content) == [role |-> role, content |-> content]

\* json.dumps(messages): the JSON text, as the list of its objects' members
json_dumps(messages) ==
    [i \in 1..Len(messages) |->
        <<"role", messages[i].role, "content", messages[i].content>>]

\* json.loads(payload)
json_loads(payload) ==
    [i \in 1..Len(payload) |-> [role |-> payload[i][2], content |-> payload[i][4]]]

----------------------------------------------------------------------------
(* InMemoryStore *)

\* a get that takes a record for expired at the very time it expires
InMemoryStore_get_early(store, chat_id, t) ==
    LET rec == store[chat_id]
    IN  IF rec = NoRec
        THEN [ret |-> <<>>, store |-> store, shared |-> FALSE]
        ELSE IF rec.exp <= t
        THEN [ret |-> <<>>, store |-> [store EXCEPT ![chat_id] = NoRec], shared |-> FALSE]
        ELSE [ret |-> rec.messages, store |-> store, shared |-> TRUE]

\* InMemoryStore.get: the list returned and the map afterwards.  `shared` says
\* that the list returned is the very list object the map holds.
InMemoryStore_get(store, chat_id, t) ==
    LET rec == store[chat_id]
    IN  IF rec = NoRec
        THEN [ret |-> <<>>, store |-> store, shared |-> FALSE]
        ELSE IF rec.exp < t
        THEN [ret |-> <<>>, store |-> [store EXCEPT ![chat_id] = NoRec], shared |-> FALSE]
        ELSE [ret |-> rec.messages, store |-> store, shared |-> TRUE]

\* a put that adds the turns to the ones the record holds
InMemoryStore_put_merge(store, chat_id, messages, t) ==
    LET old == IF store[chat_id] = NoRec THEN <<>> ELSE store[chat_id].messages
    IN  [store EXCEPT ![chat_id] = [messages |-> old \o messages, exp |-> t + MEMORY_TTL_SEC]]

\* InMemoryStore.put
InMemoryStore_put(store, chat_id, messages, t) ==
    [store EXCEPT ![chat_id] = [messages |-> messages, exp |-> t + MEMORY_TTL_SEC]]

\* a delete that removes nothing
InMemoryStore_delete_nothing(store, chat_id) == store

\* InMemoryStore.delete
InMemoryStore_delete(store, chat_id) ==
    [store EXCEPT ![chat_id] = NoRec]

(* TableStore *)

\* a get that answers from the entity whatever went wrong
TableStore_get_unguarded(tbl, chat_id, fault) ==
    IF tbl[chat_id] = NoRec THEN <<>>
    ELSE json_loads(tbl[chat_id].messagesJson)

\* TableStore.get; `fault` is a backend or deserialization error
TableStore_get(tbl, chat_id, fault) ==
    IF fault \/ tbl[chat_id] = NoRec THEN <<>>
    ELSE json_loads(tbl[chat_id].messagesJson)

\* TableStore.put, when upsert_entity does not raise
TableStore_put(tbl, chat_id, messages) ==
    [tbl EXCEPT ![chat_id] = [messagesJson |-> json_dumps(messages)]]

\* TableStore.delete; `fault` is a backend error other than not-found
TableStore_delete(tbl, chat_id, fault) ==
    IF fault THEN tbl ELSE [tbl EXCEPT ![chat_id] = NoRec]

----------------------------------------------------------------------------
(* Helpers *)

\* build_messages
build_messages(history, user_text) ==
    <<Turn("system", SYSTEM_PROMPT)>> \o history \o <<Turn("user", user_text)>>

\* a window that keeps the oldest turns
clip_history_oldest(history, n) ==
    IF n <= 0 THEN <<>> ELSE PySliceTo(history, n)

\* a window that keeps one turn too many
clip_history_one_more(history, n) ==
    IF n <= 0 THEN <<>> ELSE PySliceLast(history, n + 1)

\* clip_history
clip_history(history, n) ==
    IF n <= 0 THEN <<>> ELSE PySliceLast(history, n)

CmdNone == [kind |-> "none", val |-> <<>>]
CmdStr(s) == [kind |-> "str", val |-> s]
CmdIndexError == [kind |-> "IndexError", val |-> <<>>]

\* the position of the first entity the loop returns on, 0 when there is none
FirstCommandEntity(entities) ==
    LET hits == {i \in 1..Len(entities) :
                    entities[i].type = "bot_command" /\ entities[i].offset = 0}
    IN  IF hits = {} THEN 0 ELSE CHOOSE i \in hits : \A j \in hits : i <= j

\* a plain-text path that takes any first token for a command
FirstTokenCommand_any(text) ==
    IF text = <<>> THEN CmdNone
    ELSE IF PySplitEmpty(text) THEN CmdIndexError
    ELSE CmdStr(PySplitAt(PyLower(PySplitFirst(text))))

\* the plain-text path of extract_bot_command (l.144-147)
FirstTokenCommand(text) ==
    IF text = <<>> THEN CmdNone
    ELSE IF PySplitEmpty(text) THEN CmdIndexError
    ELSE LET first_token == PyLower(PySplitFirst(text))
         IN  IF StartsWithSlash(first_token) THEN CmdStr(PySplitAt(first_token))
             ELSE CmdNone

\* a command extraction that looks at the text alone
extract_bot_command_text_only(message) == FirstTokenCommand(message.text)

\* a command extraction that returns the entity's text as it was typed
extract_bot_command_as_typed(message) ==
    LET e == FirstCommandEntity(message.entities)
    IN  IF e # 0
        THEN CmdStr(PySplitAt(PySliceTo(message.text, message.entities[e].length)))
        ELSE FirstTokenCommand(message.text)

\* extract_bot_command: a string, None, or the IndexError it raises
extract_bot_command(message) ==
    LET e == FirstCommandEntity(message.entities)
    IN  IF e # 0
        THEN CmdStr(PyLower(PySplitAt(PySliceTo(message.text, message.entities[e].length))))
        ELSE FirstTokenCommand(message.text)

\* `if command:`
Truthy(command) == command.kind = "str" /\ command.val # <<>>

\* a handler that answers nothing when the completion fails
completion_answer_silent(outcome) ==
    IF outcome.ok THEN outcome.content ELSE Str(<<>>)

\* l.195-203: the answer, or the error placeholder in its place
completion_answer(outcome) ==
    IF outcome.ok THEN outcome.content ELSE ErrorAnswer

\* send_telegram_message: the text posted to sendMessage
send_text(text) == TxtSliceTo(text, TelegramCap)

----------------------------------------------------------------------------
(* Inputs *)

Entity(type, offset, length) == [type |-> type, offset |-> offset, length |-> length]
Message(text, entities) == [text |-> text, entities |-> entities]

\* the updates the handler is given: chat texts, commands with and without
\* their entity, a whitespace-only text, a command entity of length 0
Messages ==
    { Message(<<"h", "i">>, <<>>),
      Message(<<"/", "R", "e", "s", "e", "t", "@", "b", " ", "x">>,
              <<Entity("bot_command", 0, 8)>>),
      Message(SlashStart, <<Entity("bot_command", 0, 6)>>),
      Message(SlashHelp, <<>>),
      Message(<<"/", "f", "o", "o">>, <<>>),
      Message(<<" ">>, <<>>),
      Message(SlashReset, <<Entity("bot_command", 0, 0)>>) }

\* what the completion provider answers when it does not fail
Answers == { Str(<<"H", "e", "l", "l", "o", "!">>), Txt(<<"L", "o", "n", "g">>, TelegramCap) }

\* the outcomes of client.chat.completions.create: a text, or an exception
Completions ==
    {[ok |-> TRUE, content |-> a] : a \in Answers} \cup {[ok |-> FALSE, content |-> Str(<<>>)]}

MaxTurnsChoices == (-1)..MaxTurnsHi

----------------------------------------------------------------------------
(* State *)

Op(name, ok) == [op |-> name, ok |-> ok]

NoMessage == Message(<<>>, <<>>)
EmptyStore == [c \in Chats |-> NoRec]
NoTxt == Str(<<>>)

\* the pure functions are applied to an argument drawn in the initial state
NoArgument == [none |-> TRUE]
Pending == [done |-> FALSE, val |-> <<>>]
Returned(v) == [done |-> TRUE, val |-> v]

IdleLocals ==
    [ chat_id   |-> "c1",
      msg       |-> NoMessage,
      command   |-> CmdNone,
      history   |-> <<>>,     \* the local `history`
      shared    |-> FALSE,    \* `history` is the list object the map holds
      read      |-> <<>>,     \* what memory_store.get returned
      messages  |-> <<>>,     \* the prompt given to the completion provider
      answer    |-> NoTxt,
      posted    |-> <<>>,     \* the texts posted to sendMessage
      ops       |-> <<>>,     \* the calls made, in order, with their outcomes
      response  |-> 0,        \* the HTTP status returned
      before    |-> [mem |-> EmptyStore, table |-> EmptyStore] ]
                              \* the stores as they were when the request arrived

Init ==
    /\ backend \in {"memory", "table"}
    /\ max_turns \in MaxTurnsChoices
    /\ now = 0
    /\ mem = EmptyStore
    /\ table = EmptyStore
    /\ running = 0
    /\ received = 0
    /\ pc = [r \in Reqs |-> "idle"]
    /\ loc = [r \in Reqs |-> IdleLocals]
    /\ fn_in = NoArgument
    /\ fn_out = Pending

config == <<backend, max_turns>>
pure == <<fn_in, fn_out>>

\* A handler runs from its start, or from the point an await resumes it, to its
\* next await without another handler of the same process running in between.
\* The in-memory store lives in one process; with the table store the handlers
\* may be in different processes.
MayRun(r) == running \in {0, r}

\* handlers that could be preempted anywhere
Hold_released(r) == 0

Hold(r) == IF backend = "memory" THEN r ELSE 0

\* time passes; only InMemoryStore reads the clock
Tick ==
    /\ now < MaxTime /\ backend = "memory"
    /\ now' = now + 1
    /\ UNCHANGED <<config, mem, table, running, received, pc, loc, pure>>

----------------------------------------------------------------------------
(* main *)

\* l.157-167: a request that is no POST, has no JSON body or carries no text
ReceiveOther(r) ==
    /\ pc[r] = "idle" /\ MayRun(r) /\ received < MaxRequests
    /\ \E kind \in {"not_post", "invalid_json", "no_text"} :
          loc' = [loc EXCEPT ![r] =
                    [IdleLocals EXCEPT !.response = IF kind = "invalid_json" THEN 400 ELSE 200]]
    /\ pc' = [pc EXCEPT ![r] = "done"]
    /\ received' = received + 1
    /\ UNCHANGED <<config, now, mem, table, running, pure>>

\* a routing that clears the memory on every command
Route_delete_always(command) ==
    IF ~Truthy(command) THEN "get" ELSE "delete"

\* l.175-176, l.188: where a request goes after extract_bot_command
Route(command) ==
    IF ~Truthy(command) THEN "get"
    ELSE IF command.val = SlashReset THEN "delete"
    ELSE "cmd_send"

\* l.165-175: a text message arrives; extract_bot_command routes it
ReceiveFrom(r, chats, messages, budget) ==
    /\ pc[r] = "idle" /\ MayRun(r) /\ received < budget
    /\ received' = received + 1
    /\ \E c \in chats, m \in messages :
         LET command == extract_bot_command(m)
             l == [IdleLocals EXCEPT !.chat_id = c, !.msg = m, !.command = command,
                                     !.before = [mem |-> mem, table |-> table]]
         IN  IF command.kind = "IndexError"
             THEN /\ loc' = [loc EXCEPT ![r] = [l EXCEPT !.response = 500]]
                  /\ pc' = [pc EXCEPT ![r] = "done"]
                  /\ running' = 0
             ELSE /\ loc' = [loc EXCEPT ![r] = l]
                  /\ pc' = [pc EXCEPT ![r] = Route(command)]
                  /\ running' = IF Route(command) = "cmd_send" THEN 0 ELSE Hold(r)
    /\ UNCHANGED <<config, now, mem, table, pure>>

Receive(r) == ReceiveFrom(r, Chats, Messages, MaxRequests)

\* l.176-180: memory_store.delete(chat_key)
Delete(r) ==
    /\ pc[r] = "delete" /\ MayRun(r)
    /\ \/ /\ backend = "memory"
          /\ mem' = InMemoryStore_delete(mem, loc[r].chat_id)
          /\ loc' = [loc EXCEPT ![r].ops = Append(@, Op("delete", TRUE))]
          /\ UNCHANGED table
       \/ /\ backend = "table"
          /\ \E fault \in BOOLEAN :
               /\ table' = TableStore_delete(table, loc[r].chat_id, fault)
               /\ loc' = [loc EXCEPT ![r].ops = Append(@, Op("delete", ~fault))]
          /\ UNCHANGED mem
    /\ pc' = [pc EXCEPT ![r] = "cmd_send"]
    /\ running' = 0
    /\ UNCHANGED <<config, now, received, pure>>

\* l.181-186: the canned reply is sent, and the request is acknowledged
CommandReply(r) ==
    /\ pc[r] = "cmd_send" /\ MayRun(r)
    /\ \E ok \in BOOLEAN :
         loc' = [loc EXCEPT ![r].posted = Append(@, send_text(COMMAND_RESPONSES(loc[r].command.val))),
                            ![r].ops = Append(@, Op("send", ok)),
                            ![r].response = 200]
    /\ pc' = [pc EXCEPT ![r] = "done"]
    /\ UNCHANGED <<config, now, mem, table, running, received, pure>>

\* l.189: history = memory_store.get(chat_key)
Get(r) ==
    /\ pc[r] = "get" /\ MayRun(r)
    /\ \/ /\ backend = "memory"
          /\ LET g == InMemoryStore_get(mem, loc[r].chat_id, now)
             IN  /\ mem' = g.store
                 /\ loc' = [loc EXCEPT ![r].history = g.ret, ![r].read = g.ret,
                                       ![r].shared = g.shared,
                                       ![r].ops = Append(@, Op("get", TRUE))]
          /\ UNCHANGED table
       \/ /\ backend = "table"
          /\ \E fault \in BOOLEAN :
               LET h == TableStore_get(table, loc[r].chat_id, fault)
               IN  loc' = [loc EXCEPT ![r].history = h, ![r].read = h,
                                      ![r].ops = Append(@, Op("get", ~fault))]
          /\ UNCHANGED <<mem, table>>
    /\ pc' = [pc EXCEPT ![r] = "complete"]
    /\ UNCHANGED <<config, now, running, received, pure>>

\* a handler that calls the completion provider again when it has failed
Complete_retry(r) ==
    /\ pc[r] = "complete" /\ MayRun(r)
    /\ \E outcome \in Completions :
         /\ loc' = [loc EXCEPT ![r].messages = build_messages(loc[r].history, Str(loc[r].msg.text)),
                               ![r].answer = completion_answer(outcome),
                               ![r].ops = Append(@, Op("complete", outcome.ok))]
         /\ pc' = [pc EXCEPT ![r] = IF outcome.ok \/ Len(loc[r].ops) >= 2
                                    THEN "append" ELSE "complete"]
    /\ UNCHANGED <<config, now, mem, table, running, received, pure>>

\* l.192-203: the prompt is built and the completion provider is called
Complete(r) ==
    /\ pc[r] = "complete" /\ MayRun(r)
    /\ \E outcome \in Completions :
         loc' = [loc EXCEPT ![r].messages = build_messages(loc[r].history, Str(loc[r].msg.text)),
                            ![r].answer = completion_answer(outcome),
                            ![r].ops = Append(@, Op("complete", outcome.ok))]
    /\ pc' = [pc EXCEPT ![r] = "append"]
    /\ UNCHANGED <<config, now, mem, table, running, received, pure>>

\* a handler that remembers the prompt it sent, system turn included
AppendTurns_prompt(r) ==
    /\ pc[r] = "append" /\ MayRun(r)
    /\ LET h == loc[r].messages \o <<Turn("assistant", loc[r].answer)>>
       IN  /\ loc' = [loc EXCEPT ![r].history = h]
           /\ mem' = IF loc[r].shared
                     THEN [mem EXCEPT ![loc[r].chat_id].messages = h]
                     ELSE mem
    /\ pc' = [pc EXCEPT ![r] = "put"]
    /\ UNCHANGED <<config, now, table, running, received, pure>>

\* l.206-207: the two turns are appended to `history`, in place
AppendTurns(r) ==
    /\ pc[r] = "append" /\ MayRun(r)
    /\ LET h == loc[r].history \o <<Turn("user", Str(loc[r].msg.text)),
                                    Turn("assistant", loc[r].answer)>>
       IN  /\ loc' = [loc EXCEPT ![r].history = h]
           /\ mem' = IF loc[r].shared
                     THEN [mem EXCEPT ![loc[r].chat_id].messages = h]
                     ELSE mem
    /\ pc' = [pc EXCEPT ![r] = "put"]
    /\ UNCHANGED <<config, now, table, running, received, pure>>

\* a handler that lets a failure of the put end the request
Put_propagates(r) ==
    /\ pc[r] = "put" /\ MayRun(r)
    /\ LET h == clip_history(loc[r].history, max_turns)
       IN  \/ /\ backend = "memory"
              /\ mem' = InMemoryStore_put(mem, loc[r].chat_id, h, now)
              /\ loc' = [loc EXCEPT ![r].history = h, ![r].shared = FALSE,
                                    ![r].ops = Append(@, Op("put", TRUE))]
              /\ pc' = [pc EXCEPT ![r] = "send"]
              /\ UNCHANGED table
           \/ /\ backend = "table"
              /\ \E fault \in BOOLEAN :
                   /\ table' = IF fault THEN table
                               ELSE TableStore_put(table, loc[r].chat_id, h)
                   /\ loc' = [loc EXCEPT ![r].history = h,
                                         ![r].ops = Append(@, Op("put", ~fault)),
                                         ![r].response = IF fault THEN 500 ELSE @]
                   /\ pc' = [pc EXCEPT ![r] = IF fault THEN "done" ELSE "send"]
              /\ UNCHANGED mem
    /\ running' = 0
    /\ UNCHANGED <<config, now, received, pure>>

\* a handler that adds its two turns to what the store holds at the put
Put_merging(r) ==
    /\ pc[r] = "put" /\ MayRun(r)
    /\ LET c == loc[r].chat_id
           held == IF backend = "memory"
                   THEN IF mem[c] = NoRec THEN <<>> ELSE mem[c].messages
                   ELSE IF table[c] = NoRec THEN <<>> ELSE json_loads(table[c].messagesJson)
           new == SubSeq(loc[r].history, Len(loc[r].history) - 1, Len(loc[r].history))
           h == clip_history(IF held = loc[r].read THEN loc[r].history ELSE held \o new,
                             max_turns)
       IN  \/ /\ backend = "memory"
              /\ mem' = InMemoryStore_put(mem, c, h, now)
              /\ loc' = [loc EXCEPT ![r].history = h, ![r].shared = FALSE,
                                    ![r].ops = Append(@, Op("put", TRUE))]
              /\ UNCHANGED table
           \/ /\ backend = "table"
              /\ \E fault \in BOOLEAN :
                   /\ table' = IF fault THEN table ELSE TableStore_put(table, c, h)
                   /\ loc' = [loc EXCEPT ![r].history = h,
                                         ![r].ops = Append(@, Op("put", ~fault))]
              /\ UNCHANGED mem
    /\ pc' = [pc EXCEPT ![r] = "send"]
    /\ running' = 0
    /\ UNCHANGED <<config, now, received, pure>>

\* l.208-212: history = clip_history(...); memory_store.put(chat_key, history)
Put(r) ==
    /\ pc[r] = "put" /\ MayRun(r)
    /\ LET h == clip_history(loc[r].history, max_turns)
       IN  \/ /\ backend = "memory"
              /\ mem' = InMemoryStore_put(mem, loc[r].chat_id, h, now)
              /\ loc' = [loc EXCEPT ![r].history = h, ![r].shared = FALSE,
                                    ![r].ops = Append(@, Op("put", TRUE))]
              /\ UNCHANGED table
           \/ /\ backend = "table"
              /\ \E fault \in BOOLEAN :
                   /\ table' = IF fault THEN table
                               ELSE TableStore_put(table, loc[r].chat_id, h)
                   /\ loc' = [loc EXCEPT ![r].history = h,
                                         ![r].ops = Append(@, Op("put", ~fault))]
              /\ UNCHANGED mem
    /\ pc' = [pc EXCEPT ![r] = "send"]
    /\ running' = 0
    /\ UNCHANGED <<config, now, received, pure>>

\* l.215-220: the answer is sent, and the request is acknowledged
Reply(r) ==
    /\ pc[r] = "send" /\ MayRun(r)
    /\ \E ok \in BOOLEAN :
         loc' = [loc EXCEPT ![r].posted = Append(@, send_text(loc[r].answer)),
                            ![r].ops = Append(@, Op("send", ok)),
                            ![r].response = 200]
    /\ pc' = [pc EXCEPT ![r] = "done"]
    /\ UNCHANGED <<config, now, mem, table, running, received, pure>>

\* the invocation is over
Finish(r) ==
    /\ pc[r] = "done"
    /\ pc' = [pc EXCEPT ![r] = "idle"]
    /\ loc' = [loc EXCEPT ![r] = IdleLocals]
    /\ UNCHANGED <<config, now, mem, table, running, received, pure>>

\* one invocation of main
Handler(r) ==
    \/ ReceiveOther(r)
    \/ Receive(r)
    \/ Delete(r)
    \/ CommandReply(r)
    \/ Get(r)
    \/ Complete(r)
    \/ AppendTurns(r)
    \/ Put(r)
    \/ Reply(r)
    \/ Finish(r)

\* requests handled one after another
Next ==
    \/ Tick
    \/ Handler(1)

Spec == Init /\ [][Next]_vars

\* invocations that overlap
NextConcurrent ==
    \/ Tick
    \/ \E r \in Reqs : Handler(r)

SpecConcurrent == Init /\ [][NextConcurrent]_vars

----------------------------------------------------------------------------
(* Chat messages of one conversation, handled by invocations that overlap *)

\* a window with room for the turns of two requests
RoomyTurns == MaxTurnsHi + 1

ChatMessages == { Message(<<"h", "i">>, <<>>), Message(<<"y", "o">>, <<>>) }

InitOverlap ==
    /\ backend \in {"memory", "table"}
    /\ max_turns = RoomyTurns
    /\ now = 0
    /\ mem = EmptyStore
    /\ table = EmptyStore
    /\ running = 0
    /\ received = 0
    /\ pc = [r \in Reqs |-> "idle"]
    /\ loc = [r \in Reqs |-> IdleLocals]
    /\ fn_in = NoArgument
    /\ fn_out = Pending

ReceiveChat(r) == ReceiveFrom(r, {"c1"}, ChatMessages, MaxOverlap)

NextOverlap ==
    \/ Tick
    \/ \E r \in Reqs :
          \/ ReceiveChat(r)
          \/ Get(r)
          \/ Complete(r)
          \/ AppendTurns(r)
          \/ Put(r)
          \/ Reply(r)
          \/ Finish(r)

SpecOverlap == InitOverlap /\ [][NextOverlap]_vars

----------------------------------------------------------------------------
(* clip_history on its own *)

SeqsUpTo(S, n) == UNION {[1..k -> S] : k \in 0..n}

ClipTurns == {Turn("user", Str(<<"h", "i">>)), Turn("assistant", ErrorAnswer)}

ClipInputs ==
    [history : SeqsUpTo(ClipTurns, MaxClipLen), max_turns : (-2)..(MaxClipLen + 1)]

InitQuiet ==
    /\ backend = "memory"
    /\ max_turns = 0
    /\ now = 0
    /\ mem = EmptyStore
    /\ table = EmptyStore
    /\ running = 0
    /\ received = 0
    /\ pc = [r \in Reqs |-> "idle"]
    /\ loc = [r \in Reqs |-> IdleLocals]
    /\ fn_out = Pending

quiet == <<backend, max_turns, now, mem, table, running, received, pc, loc>>

InitClip == InitQuiet /\ fn_in \in ClipInputs

ClipStep ==
    /\ ~fn_out.done
    /\ fn_out' = Returned(clip_history(fn_in.history, fn_in.max_turns))
    /\ UNCHANGED <<fn_in, quiet>>

SpecClip == InitClip /\ [][ClipStep]_vars

----------------------------------------------------------------------------
(* extract_bot_command on its own *)

CmdChars == {"/", "@", " ", "r", "R"}
CmdEntities ==
    [type : {"bot_command", "mention"}, offset : {0, 1},
     length : {-1, 0, 2, MaxTextLen + 1}]

\* '/reset@mybot extra text' with its entity, and 'hello /reset'
ExampleQualified ==
    Message(<<"/", "r", "e", "s", "e", "t", "@", "m", "y", "b", "o", "t", " ",
              "e", "x", "t", "r", "a", " ", "t", "e", "x", "t">>,
            <<Entity("bot_command", 0, 6)>>)
ExampleNotLeading ==
    Message(<<"h", "e", "l", "l", "o", " ", "/", "r", "e", "s", "e", "t">>, <<>>)

\* '/RESET' as plain text, and '/Reset@MyBot' with its entity
ExampleUpper ==
    Message(<<"/", "R", "E", "S", "E", "T">>, <<>>)
ExampleMixedQualified ==
    Message(<<"/", "R", "e", "s", "e", "t", "@", "M", "y", "B", "o", "t">>,
            <<Entity("bot_command", 0, 12)>>)

CmdInputs ==
    [text : SeqsUpTo(CmdChars, MaxTextLen), entities : SeqsUpTo(CmdEntities, 2)]
        \cup Messages
        \cup {ExampleQualified, ExampleNotLeading, ExampleUpper, ExampleMixedQualified}

InitCmd == InitQuiet /\ fn_in \in CmdInputs

ExtractStep ==
    /\ ~fn_out.done
    /\ fn_out' = Returned(extract_bot_command(fn_in))
    /\ UNCHANGED <<fn_in, quiet>>

SpecCmd == InitCmd /\ [][ExtractStep]_vars

----------------------------------------------------------------------------
(* The stores on their own: get, put and delete called in any order *)

StoreHistories == SeqsUpTo(ClipTurns, MaxStoreLen)

Call(op, chat_id, messages, ok) ==
    [op |-> op, chat_id |-> chat_id, messages |-> messages, ok |-> ok]
NoCall == Call("none", "c1", <<>>, TRUE)

\* fn_in is the call made last, and which call was made before it; fn_out is
\* what the last call returned
Called(call) == [call |-> call, prev |-> [fn_in.call EXCEPT !.messages = <<>>]]

InitStore ==
    /\ backend \in {"memory", "table"}
    /\ max_turns = 0
    /\ now = 0
    /\ mem = EmptyStore
    /\ table = EmptyStore
    /\ running = 0
    /\ received = 0
    /\ pc = [r \in Reqs |-> "idle"]
    /\ loc = [r \in Reqs |-> IdleLocals]
    /\ fn_in = [call |-> NoCall, prev |-> NoCall]
    /\ fn_out = Pending

handlers == <<max_turns, running, received, pc, loc>>

\* memory_store.put(chat_id, messages); upsert_entity may raise
PutCall ==
    /\ \E c \in Chats, h \in StoreHistories :
         \/ /\ backend = "memory"
            /\ mem' = InMemoryStore_put(mem, c, h, now)
            /\ fn_in' = Called(Call("put", c, h, TRUE))
            /\ UNCHANGED table
         \/ /\ backend = "table"
            /\ \E fault \in BOOLEAN :
                 /\ table' = IF fault THEN table ELSE TableStore_put(table, c, h)
                 /\ fn_in' = Called(Call("put", c, h, ~fault))
            /\ UNCHANGED mem
    /\ fn_out' = Returned(<<>>)
    /\ UNCHANGED <<backend, now, handlers>>

\* memory_store.get(chat_id)
GetCall ==
    /\ \E c \in Chats :
         \/ /\ backend = "memory"
            /\ LET g == InMemoryStore_get(mem, c, now)
               IN  /\ mem' = g.store
                   /\ fn_out' = Returned(g.ret)
            /\ fn_in' = Called(Call("get", c, <<>>, TRUE))
            /\ UNCHANGED table
         \/ /\ backend = "table"
            /\ \E fault \in BOOLEAN :
                 /\ fn_out' = Returned(TableStore_get(table, c, fault))
                 /\ fn_in' = Called(Call("get", c, <<>>, ~fault))
            /\ UNCHANGED <<mem, table>>
    /\ UNCHANGED <<backend, now, handlers>>

\* memory_store.delete(chat_id)
DeleteCall ==
    /\ \E c \in Chats :
         \/ /\ backend = "memory"
            /\ mem' = InMemoryStore_delete(mem, c)
            /\ fn_in' = Called(Call("delete", c, <<>>, TRUE))
            /\ UNCHANGED table
         \/ /\ backend = "table"
            /\ \E fault \in BOOLEAN :
                 /\ table' = TableStore_delete(table, c, fault)
                 /\ fn_in' = Called(Call("delete", c, <<>>, ~fault))
            /\ UNCHANGED mem
    /\ fn_out' = Returned(<<>>)
    /\ UNCHANGED <<backend, now, handlers>>

NextStore ==
    \/ Tick
    \/ PutCall
    \/ GetCall
    \/ DeleteCall

SpecStore == InitStore /\ [][NextStore]_vars

----------------------------------------------------------------------------
(* InMemoryStore statement by statement, called by the handlers of one process *)

IdleCall ==
    [op |-> "none", chat_id |-> "c1", rec |-> NoRec, t |-> 0, ret |-> <<>>, raised |-> FALSE]

InitStatements ==
    /\ backend = "memory"
    /\ max_turns = 0
    /\ now = 0
    /\ mem = EmptyStore
    /\ table = EmptyStore
    /\ running = 0
    /\ received = 0
    /\ pc = [r \in Reqs |-> "idle"]
    /\ loc = [r \in Reqs |-> IdleCall]
    /\ fn_in = NoArgument
    /\ fn_out = Pending

\* l.54-55: rec = self._store.get(chat_id); now = time.time()
GetRead(r) ==
    /\ pc[r] = "idle" /\ MayRun(r) /\ received < MaxStoreCalls
    /\ \E c \in Chats :
         loc' = [loc EXCEPT ![r] = [IdleCall EXCEPT !.op = "get", !.chat_id = c,
                                                   !.rec = mem[c], !.t = now]]
    /\ pc' = [pc EXCEPT ![r] = "l56"]
    /\ running' = Hold(r)
    /\ received' = received + 1
    /\ UNCHANGED <<config, now, mem, table, pure>>

\* l.56-58, l.61: the two tests, and the return of the stored list
GetCheck(r) ==
    /\ pc[r] = "l56" /\ MayRun(r)
    /\ IF loc[r].rec = NoRec
       THEN /\ pc' = [pc EXCEPT ![r] = "returned"]
            /\ running' = 0
            /\ UNCHANGED loc
       ELSE IF loc[r].rec.exp < loc[r].t
       THEN /\ pc' = [pc EXCEPT ![r] = "l59"]
            /\ UNCHANGED <<loc, running>>
       ELSE /\ pc' = [pc EXCEPT ![r] = "returned"]
            /\ loc' = [loc EXCEPT ![r].ret = loc[r].rec.messages]
            /\ running' = 0
    /\ UNCHANGED <<config, now, mem, table, received, pure>>

\* l.59-60: del self._store[chat_id], a KeyError when the key is not there
GetEvict(r) ==
    /\ pc[r] = "l59" /\ MayRun(r)
    /\ IF mem[loc[r].chat_id] = NoRec
       THEN /\ loc' = [loc EXCEPT ![r].raised = TRUE]
            /\ UNCHANGED mem
       ELSE /\ mem' = [mem EXCEPT ![loc[r].chat_id] = NoRec]
            /\ UNCHANGED loc
    /\ pc' = [pc EXCEPT ![r] = "returned"]
    /\ running' = 0
    /\ UNCHANGED <<config, now, table, received, pure>>

\* l.64: the one statement of put
PutStatement(r) ==
    /\ pc[r] = "idle" /\ MayRun(r) /\ received < MaxStoreCalls
    /\ \E c \in Chats, h \in {<<>>, <<Turn("user", Str(<<"h", "i">>))>>} :
         /\ mem' = InMemoryStore_put(mem, c, h, now)
         /\ loc' = [loc EXCEPT ![r] = [IdleCall EXCEPT !.op = "put", !.chat_id = c, !.t = now]]
    /\ pc' = [pc EXCEPT ![r] = "returned"]
    /\ received' = received + 1
    /\ UNCHANGED <<config, now, table, running, pure>>

\* l.67: the one statement of delete
DeleteStatement(r) ==
    /\ pc[r] = "idle" /\ MayRun(r) /\ received < MaxStoreCalls
    /\ \E c \in Chats :
         /\ mem' = InMemoryStore_delete(mem, c)
         /\ loc' = [loc EXCEPT ![r] = [IdleCall EXCEPT !.op = "delete", !.chat_id = c,
                                                   !.rec = mem[c], !.t = now]]
    /\ pc' = [pc EXCEPT ![r] = "returned"]
    /\ received' = received + 1
    /\ UNCHANGED <<config, now, table, running, pure>>

\* the caller goes on
CallOver(r) ==
    /\ pc[r] = "returned" /\ MayRun(r)
    /\ pc' = [pc EXCEPT ![r] = "idle"]
    /\ loc' = [loc EXCEPT ![r] = IdleCall]
    /\ UNCHANGED <<config, now, mem, table, running, received, pure>>

NextStatements ==
    \/ Tick
    \/ \E r \in Reqs :
          \/ GetRead(r)
          \/ GetCheck(r)
          \/ GetEvict(r)
          \/ PutStatement(r)
          \/ DeleteStatement(r)
          \/ CallOver(r)

SpecStatements == InitStatements /\ [][NextStatements]_vars

----------------------------------------------------------------------------
(* Claims *)

\* the history the store holds for a conversation, expired or not
StoredHistory(c) ==
    IF backend = "memory"
    THEN IF mem[c] = NoRec THEN <<>> ELSE mem[c].messages
    ELSE IF table[c] = NoRec THEN <<>> ELSE json_loads(table[c].messagesJson)

\* what store.get would return for a conversation now
Readable(c) ==
    IF backend = "memory"
    THEN IF mem[c] = NoRec \/ mem[c].exp < now THEN <<>> ELSE mem[c].messages
    ELSE StoredHistory(c)

\* the last n entries of a sequence, in their order; none for n <= 0
Window(h, n) ==
    IF n <= 0 THEN <<>>
    ELSE [i \in 1..Min(n, Len(h)) |-> h[Len(h) - Min(n, Len(h)) + i]]

\* the first k characters of a text
IsCutTo(p, t, k) ==
    /\ TxtLen(p) = Min(TxtLen(t), k)
    /\ Len(p.s) <= Len(t.s)
    /\ p.s = SubSeq(t.s, 1, Len(p.s))
    /\ p.pad > 0 => p.s = t.s

CountOps(r, name) == Cardinality({i \in 1..Len(loc[r].ops) : loc[r].ops[i].op = name})
OpOk(r, name) == \E i \in 1..Len(loc[r].ops) : loc[r].ops[i].op = name /\ loc[r].ops[i].ok
OpFailed(r, name) == \E i \in 1..Len(loc[r].ops) : loc[r].ops[i].op = name /\ ~loc[r].ops[i].ok

InChatBranch(r) == pc[r] \in {"get", "complete", "append", "put", "send"}
ChatDone(r) == pc[r] = "done" /\ CountOps(r, "get") = 1
IsCommand(r) == loc[r].command.kind = "str" /\ loc[r].command.val # <<>>
CommandDone(r) == pc[r] = "done" /\ IsCommand(r)

UserTurn(r) == Turn("user", Str(loc[r].msg.text))
NewTurns(r) == <<UserTurn(r), Turn("assistant", loc[r].answer)>>

\* C1: right after every put of a chat request, the store holds for every
\* conversation a history of at most maxHistoryTurns turns (none when
\* maxHistoryTurns <= 0), and with maxHistoryTurns <= 0 the history written is empty.
C1_WindowBound ==
    \A r \in Reqs :
        pc[r] = "send" =>
            /\ \A c \in Chats : Len(StoredHistory(c)) <= Max(max_turns, 0)
            /\ max_turns <= 0 => loc[r].history = <<>>

\* C1 witness: a put has just written a history that had to be cut
C1_Witness ==
    \E r \in Reqs :
        /\ pc[r] = "send" /\ OpOk(r, "put")
        /\ max_turns > 0
        /\ Len(loc[r].read) + 2 > max_turns
        /\ Len(StoredHistory(loc[r].chat_id)) = max_turns

\* C2 as stated: after a chat message is handled the store holds
\* clip(H ++ [user u, assistant a], maxHistoryTurns) for its conversation, the
\* reply sent is a, and the other conversations are as they were.
C2_Original ==
    \A r \in Reqs :
        ChatDone(r) =>
            /\ StoredHistory(loc[r].chat_id) = Window(loc[r].read \o NewTurns(r), max_turns)
            /\ loc[r].posted = <<loc[r].answer>>
            /\ \A c \in Chats \ {loc[r].chat_id} :
                  mem[c] = loc[r].before.mem[c] /\ table[c] = loc[r].before.table[c]

\* C2, amended: with H the history store.get returned, a put that does not fail
\* leaves the store holding clip(H ++ [user u, assistant a], maxHistoryTurns) for
\* the conversation (with len(H) = maxHistoryTurns >= 2: H without its two oldest
\* turns, then the new pair); the reply posted is a cut to its first 4096
\* characters, a itself when it is no longer; the other conversations are as
\* they were.
C2_ChatResult ==
    \A r \in Reqs :
        /\ (pc[r] \in {"send", "done"} /\ OpOk(r, "put")) =>
              /\ StoredHistory(loc[r].chat_id) = Window(loc[r].read \o NewTurns(r), max_turns)
              /\ (Len(loc[r].read) = max_turns /\ max_turns >= 2) =>
                    StoredHistory(loc[r].chat_id) =
                        SubSeq(loc[r].read, 3, Len(loc[r].read)) \o NewTurns(r)
        /\ ChatDone(r) =>
              /\ Len(loc[r].posted) = 1
              /\ IsCutTo(loc[r].posted[1], loc[r].answer, TelegramCap)
              /\ TxtLen(loc[r].answer) <= TelegramCap => loc[r].posted[1] = loc[r].answer
        /\ (InChatBranch(r) \/ ChatDone(r)) =>
              \A c \in Chats \ {loc[r].chat_id} :
                  mem[c] = loc[r].before.mem[c] /\ table[c] = loc[r].before.table[c]

\* C2 witness: a full window takes a new pair and loses its two oldest turns
C2_Witness ==
    \E r \in Reqs :
        /\ ChatDone(r) /\ OpOk(r, "put") /\ OpOk(r, "complete")
        /\ max_turns >= 3
        /\ Len(loc[r].read) = max_turns
        /\ StoredHistory(loc[r].chat_id) # loc[r].read
        /\ loc[r].posted = <<loc[r].answer>>

\* C3 as stated: after /reset is handled for a conversation with stored history,
\* store.get gives the empty history, one confirmation reply was sent and the
\* completion provider was not called.
C3_Original ==
    \A r \in Reqs :
        (CommandDone(r) /\ loc[r].command.val = SlashReset) =>
            /\ Readable(loc[r].chat_id) = <<>>
            /\ loc[r].posted = <<ResetReply>>
            /\ CountOps(r, "send") = 1
            /\ CountOps(r, "complete") = 0

\* C3, amended: unless the table backend's delete failed with an error other
\* than not-found (which is swallowed and leaves the record), store.get gives the
\* empty history after /reset is handled; in every case exactly one reply is
\* sent, the confirmation, and the completion provider is not called.
C3_ResetClears ==
    \A r \in Reqs :
        (CommandDone(r) /\ loc[r].command.val = SlashReset) =>
            /\ OpOk(r, "delete") =>
                  /\ Readable(loc[r].chat_id) = <<>>
                  /\ mem[loc[r].chat_id] = NoRec /\ table[loc[r].chat_id] = NoRec
            /\ CountOps(r, "delete") = 1
            /\ loc[r].posted = <<ResetReply>>
            /\ CountOps(r, "send") = 1
            /\ CountOps(r, "complete") = 0

\* C3 witness: a conversation with stored history has been reset
C3_Witness ==
    \E r \in Reqs :
        /\ CommandDone(r) /\ loc[r].command.val = SlashReset /\ OpOk(r, "delete")
        /\ \/ loc[r].before.mem[loc[r].chat_id] # NoRec
           \/ loc[r].before.table[loc[r].chat_id] # NoRec
        /\ Readable(loc[r].chat_id) = <<>>

\* C4: a message for which extract_bot_command returns a command (a non-empty
\* string) is handled with no completion call, no store get and no store put and
\* with exactly one reply send; unless the command is /reset, the stores are
\* left as they were, histories and expiry times alike.
C4_CommandShortCircuits ==
    \A r \in Reqs :
        (IsCommand(r) /\ pc[r] # "idle") =>
            /\ pc[r] \in {"delete", "cmd_send", "done"}
            /\ CountOps(r, "complete") = 0
            /\ CountOps(r, "get") = 0
            /\ CountOps(r, "put") = 0
            /\ pc[r] = "done" =>
                  /\ CountOps(r, "send") = 1
                  /\ loc[r].posted = <<COMMAND_RESPONSES(loc[r].command.val)>>
                  /\ loc[r].response = 200
            /\ pc[r] # "done" => CountOps(r, "send") = 0
            /\ loc[r].command.val # SlashReset =>
                  /\ CountOps(r, "delete") = 0
                  /\ mem = loc[r].before.mem
                  /\ table = loc[r].before.table

\* C4 witness: an unrecognized command was answered over a store that holds a history
C4_Witness ==
    \E r \in Reqs :
        /\ CommandDone(r)
        /\ loc[r].command.val = <<"/", "f", "o", "o">>
        /\ loc[r].posted = <<UnknownReply>>
        /\ StoredHistory(loc[r].chat_id) # <<>>

\* C5: InMemoryStore.put sets the expiry to now + ttl; a get later than the
\* expiry returns the empty history and removes the key, a get at or before it
\* returns the stored history and keeps the entry; the prompt of a chat request
\* is built from what get returned, so never from an expired record's turns.
C5_LazyExpiry ==
    [][\A r \in Reqs :
         LET c == loc[r].chat_id
         IN  /\ (backend = "memory" /\ pc[r] = "put" /\ pc'[r] = "send") =>
                   mem'[c].exp = now + MEMORY_TTL_SEC
             /\ (backend = "memory" /\ pc[r] = "get" /\ pc'[r] = "complete" /\ mem[c] # NoRec) =>
                   IF now > mem[c].exp
                   THEN loc'[r].read = <<>> /\ mem'[c] = NoRec
                   ELSE loc'[r].read = mem[c].messages /\ mem'[c] = mem[c]
             /\ (pc[r] = "complete" /\ pc'[r] = "append") =>
                   loc'[r].messages =
                       <<Turn("system", SYSTEM_PROMPT)>> \o loc[r].read \o <<UserTurn(r)>>
      ]_vars

\* C5 witness: a get has found the record expired and removed it
C5_Witness ==
    \E r \in Reqs :
        /\ backend = "memory" /\ pc[r] = "complete"
        /\ loc[r].before.mem[loc[r].chat_id] # NoRec
        /\ loc[r].before.mem[loc[r].chat_id].messages # <<>>
        /\ mem[loc[r].chat_id] = NoRec
        /\ loc[r].read = <<>>

\* C6: for every history H and every integer N, clip(H, N) for N > 0 has length
\* min(len(H), N), which is at most N, and is the last that many entries of H in
\* their order; for N <= 0 it is empty.
C6_ClipIsBoundedSuffix ==
    fn_out.done =>
        LET H == fn_in.history
            N == fn_in.max_turns
            out == fn_out.val
        IN  /\ N > 0 =>
                /\ Len(out) = Min(Len(H), N)
                /\ Len(out) <= N
                /\ \A i \in 1..Len(out) : out[i] = H[Len(H) - Len(out) + i]
            /\ N <= 0 => out = <<>>

\* C6 witness: a history of 10 turns clipped to 8 has lost its two oldest turns
C6_Witness ==
    /\ fn_out.done
    /\ Len(fn_in.history) = 10
    /\ fn_in.max_turns = 8
    /\ Len(fn_out.val) = 8
    /\ fn_out.val[1] = fn_in.history[3]
    /\ fn_in.history[1] # fn_in.history[3]

\* C7: when the message has a command entity at offset 0 (the first such, of
\* length L >= 0), the command is the first L characters of the text, cut before
\* their first '@' and lower-cased, whatever the first token is; only without
\* such an entity does the first whitespace-delimited token decide, and then a
\* first token that does not start with '/' gives none.
C7_EntityPrecedence ==
    fn_out.done =>
        LET text == fn_in.text
            e == fn_in.entities
            hits == {i \in 1..Len(e) : e[i].type = "bot_command" /\ e[i].offset = 0}
            first == CHOOSE i \in hits : \A j \in hits : i <= j
            L == e[first].length
            prefix == SubSeq(text, 1, Min(L, Len(text)))
            ats == {i \in 1..Len(prefix) : prefix[i] = "@"}
            cut == IF ats = {} THEN Len(prefix) + 1
                   ELSE CHOOSE i \in ats : \A j \in ats : i <= j
            inked == {i \in 1..Len(text) : ~IsSpace(text[i])}
            lead == CHOOSE i \in inked : \A j \in inked : i <= j
        IN  /\ (hits # {} /\ L >= 0) =>
                fn_out.val = CmdStr([i \in 1..(cut - 1) |-> LowerChar(prefix[i])])
            /\ hits = {} => fn_out.val = FirstTokenCommand(text)
            /\ (hits = {} /\ inked # {} /\ text[lead] # "/") => fn_out.val = CmdNone
            /\ fn_in = ExampleQualified => fn_out.val = CmdStr(SlashReset)
            /\ fn_in = ExampleNotLeading => fn_out.val = CmdNone

\* C7 witness: a command entity decides against the first token
C7_Witness ==
    /\ fn_out.done
    /\ \E i \in 1..Len(fn_in.entities) :
          /\ fn_in.entities[i].type = "bot_command"
          /\ fn_in.entities[i].offset = 0
          /\ fn_in.entities[i].length = 2
    /\ fn_out.val = CmdStr(<<"/", "r">>)
    /\ FirstTokenCommand(fn_in.text) = CmdStr(<<"/", "r", "r">>)

\* C8: every POST update that carries a text message is acknowledged with
\* HTTP 200, whatever the text and the entities and whatever fails below.
C8_AlwaysAcknowledged ==
    \A r \in Reqs :
        (pc[r] = "done" /\ loc[r].msg # NoMessage) => loc[r].response = 200

\* C9 as stated: when the completion provider fails, the reply sent is the error
\* placeholder, the put still happens, and the stored history then ends with the
\* user's turn followed by the assistant turn holding the placeholder.
C9_Original ==
    \A r \in Reqs :
        (ChatDone(r) /\ OpFailed(r, "complete")) =>
            /\ loc[r].posted = <<ErrorAnswer>>
            /\ CountOps(r, "put") = 1
            /\ LET h == StoredHistory(loc[r].chat_id)
               IN  /\ Len(h) >= 2
                   /\ SubSeq(h, Len(h) - 1, Len(h)) =
                         <<UserTurn(r), Turn("assistant", ErrorAnswer)>>

\* C9, amended: when the completion provider fails, the reply sent is the error
\* placeholder and the put is still made, with the history read, the user's turn
\* and an assistant turn holding the placeholder, cut to maxHistoryTurns; when
\* that put does not fail and maxHistoryTurns >= 2, the stored history ends with
\* the user's turn followed by that assistant turn.
C9_ErrorRemembered ==
    \A r \in Reqs :
        (ChatDone(r) /\ OpFailed(r, "complete")) =>
            /\ loc[r].posted = <<ErrorAnswer>>
            /\ CountOps(r, "send") = 1
            /\ CountOps(r, "put") = 1
            /\ loc[r].history =
                  Window(loc[r].read \o <<UserTurn(r), Turn("assistant", ErrorAnswer)>>,
                         max_turns)
            /\ (OpOk(r, "put") /\ max_turns >= 2) =>
                  LET h == StoredHistory(loc[r].chat_id)
                  IN  /\ Len(h) >= 2
                      /\ SubSeq(h, Len(h) - 1, Len(h)) =
                            <<UserTurn(r), Turn("assistant", ErrorAnswer)>>

\* C9 witness: a failed completion has been answered and remembered
C9_Witness ==
    \E r \in Reqs :
        /\ ChatDone(r) /\ OpFailed(r, "complete") /\ OpOk(r, "put")
        /\ max_turns >= 2
        /\ loc[r].read # <<>>
        /\ loc[r].posted = <<ErrorAnswer>>

\* C10: store.get gives the empty history for a conversation that has no record
\* (never written, or deleted), for an expired record and on any backend or
\* deserialization error; it never fails the request: the prompt is then the
\* system turn and the new user turn, and a reply is still sent.
C10_GetNeverFails ==
    [][\A r \in Reqs :
         LET c == loc[r].chat_id
             gone == IF backend = "memory"
                     THEN mem[c] = NoRec \/ now > mem[c].exp
                     ELSE table[c] = NoRec \/ ~loc'[r].ops[Len(loc'[r].ops)].ok
         IN  /\ (pc[r] = "get" /\ pc'[r] # "get") =>
                   /\ pc'[r] = "complete"
                   /\ loc'[r].response = 0
                   /\ gone => (loc'[r].read = <<>> /\ loc'[r].history = <<>>)
             /\ (pc[r] = "complete" /\ pc'[r] = "append" /\ loc[r].read = <<>>) =>
                   loc'[r].messages = <<Turn("system", SYSTEM_PROMPT), UserTurn(r)>>
             /\ (InChatBranch(r) /\ pc'[r] = "done") =>
                   /\ pc[r] = "send"
                   /\ loc'[r].response = 200
                   /\ Len(loc'[r].posted) = 1
                   /\ CountOps(r, "send")' = 1
             /\ (InChatBranch(r) /\ pc'[r] # pc[r] /\ pc[r] # "send") =>
                   (InChatBranch(r))'
      ]_vars

\* C10 witness: a read that failed on an existing record was answered all the same
C10_Witness ==
    \E r \in Reqs :
        /\ ChatDone(r) /\ OpFailed(r, "get")
        /\ loc[r].before.table[loc[r].chat_id] # NoRec
        /\ loc[r].read = <<>>
        /\ Len(loc[r].messages) = 2
        /\ Len(loc[r].posted) = 1

\* C11: when store.put fails during a chat request the failure is swallowed:
\* the put is not repeated, both stores are as they were when the request
\* arrived, the reply is still sent exactly once, with the completion text (or the
\* error placeholder), and the request is acknowledged with HTTP 200.
C11_PutFailureSwallowed ==
    \A r \in Reqs :
        (pc[r] \in {"send", "done"} /\ OpFailed(r, "put")) =>
            /\ CountOps(r, "put") = 1
            /\ table = loc[r].before.table
            /\ mem = loc[r].before.mem
            /\ pc[r] = "send" => (CountOps(r, "send") = 0 /\ loc[r].response = 0)
            /\ pc[r] = "done" =>
                  /\ CountOps(r, "send") = 1
                  /\ loc[r].ops[Len(loc[r].ops)].op = "send"
                  /\ loc[r].posted = <<send_text(loc[r].answer)>>
                  /\ OpOk(r, "complete") => loc[r].answer \in Answers
                  /\ loc[r].response = 200

\* C11 witness: a put over an existing record failed, the answer was sent and
\* the record is the one the request found
C11_Witness ==
    \E r \in Reqs :
        /\ ChatDone(r) /\ OpFailed(r, "put") /\ OpOk(r, "complete")
        /\ loc[r].before.table[loc[r].chat_id] # NoRec
        /\ table[loc[r].chat_id] = loc[r].before.table[loc[r].chat_id]
        /\ StoredHistory(loc[r].chat_id) # loc[r].history
        /\ loc[r].posted = <<loc[r].answer>>
        /\ loc[r].response = 200

\* the history a store of the given content holds, and what a get at time t
\* would return from it
StoredIn(m, tbl, c) ==
    IF backend = "memory"
    THEN IF m[c] = NoRec THEN <<>> ELSE m[c].messages
    ELSE IF tbl[c] = NoRec THEN <<>> ELSE json_loads(tbl[c].messagesJson)
ReadableIn(m, tbl, c, t) ==
    IF backend = "memory"
    THEN IF m[c] = NoRec \/ m[c].exp < t THEN <<>> ELSE m[c].messages
    ELSE StoredIn(m, tbl, c)

\* C12: for both stores, a put(id, H) that does not fail leaves the store
\* holding exactly H for id, whatever it held before, and leaves every other id
\* as it was; a get(id) that is the next call (before expiry, the backend
\* answering) returns H, turn for turn; the same put made again leaves the
\* stored history as the first put left it.
C12_PutReplaces ==
    [][LET call == fn_in'.call
           last == fn_in.call
           c == call.chat_id
       IN  fn_in' # fn_in =>
             /\ (call.op = "put" /\ call.ok) =>
                   /\ StoredIn(mem', table', c) = call.messages
                   /\ ReadableIn(mem', table', c, now') = call.messages
                   /\ \A d \in Chats \ {c} : mem'[d] = mem[d] /\ table'[d] = table[d]
             /\ (call.op = "get" /\ call.ok /\ last.op = "put" /\ last.ok
                   /\ last.chat_id = c /\ (backend = "memory" => now <= mem[c].exp)) =>
                   /\ fn_out'.val = last.messages
                   /\ StoredIn(mem', table', c) = last.messages
             /\ (call.op = "put" /\ call.ok /\ last = call) =>
                   /\ StoredIn(mem', table', c) = StoredIn(mem, table, c)
                   /\ \A d \in Chats \ {c} : mem'[d] = mem[d] /\ table'[d] = table[d]
      ]_vars

\* C12 witness: a get right after a put has returned the one turn the store holds
C12_Witness ==
    /\ fn_in.call.op = "get" /\ fn_in.call.ok
    /\ fn_in.prev.op = "put" /\ fn_in.prev.ok
    /\ fn_in.prev.chat_id = fn_in.call.chat_id
    /\ Len(fn_out.val) = 1
    /\ fn_out.val = StoredHistory(fn_in.call.chat_id)
    /\ \E d \in Chats \ {fn_in.call.chat_id} : Len(StoredHistory(d)) = MaxStoreLen

Roles(h) == {h[i].role : i \in 1..Len(h)}

\* C13: starting from empty stores, every turn a store holds, and every turn of
\* a request's history, has role user or assistant; the system turn is found
\* only in the prompt given to the completion provider, as its first element and
\* nowhere else in it; building the prompt changes neither the history that was
\* read nor the stores.
C13_SystemTurnNotStored ==
    [][/\ \A c \in Chats : Roles(StoredIn(mem', table', c)) \subseteq {"user", "assistant"}
       /\ \A r \in Reqs :
             /\ Roles(loc'[r].history) \subseteq {"user", "assistant"}
             /\ Roles(loc'[r].read) \subseteq {"user", "assistant"}
             /\ loc'[r].messages # <<>> =>
                   /\ loc'[r].messages[1] = Turn("system", SYSTEM_PROMPT)
                   /\ \A i \in 2..Len(loc'[r].messages) : loc'[r].messages[i].role # "system"
             /\ (pc[r] = "complete" /\ pc'[r] = "append") =>
                   /\ loc'[r].messages =
                         <<Turn("system", SYSTEM_PROMPT)>> \o loc[r].history \o <<UserTurn(r)>>
                   /\ loc'[r].history = loc[r].history
                   /\ loc'[r].history = loc[r].read
                   /\ mem' = mem /\ table' = table
      ]_vars

\* C13 witness: a prompt was built from a stored history of two turns, which the
\* store still holds
C13_Witness ==
    \E r \in Reqs :
        /\ pc[r] = "append"
        /\ Len(loc[r].read) = 2
        /\ Len(loc[r].messages) = 4
        /\ loc[r].messages[1].role = "system"
        /\ StoredHistory(loc[r].chat_id) = loc[r].read

\* C14: when two chat requests for one conversation were given the same
\* history H by get and both made their put, the store ends up with the put of
\* one of them alone, clip(H ++ its two turns): the turns of the other request
\* are lost.  Handlers of one process do not interleave between get and put (no
\* await lies between them); handlers of the table store do.
C14_LostUpdate ==
    /\ \A r1, r2 \in Reqs :
          (/\ r1 # r2 /\ ChatDone(r1) /\ ChatDone(r2)
           /\ loc[r1].chat_id = loc[r2].chat_id
           /\ loc[r1].read = loc[r2].read
           /\ OpOk(r1, "put") /\ OpOk(r2, "put")) =>
              \/ StoredHistory(loc[r1].chat_id) = Window(loc[r1].read \o NewTurns(r1), max_turns)
              \/ StoredHistory(loc[r1].chat_id) = Window(loc[r2].read \o NewTurns(r2), max_turns)
    /\ backend = "memory" =>
          Cardinality({r \in Reqs : pc[r] \in {"get", "complete", "append", "put"}}) <= 1

\* C14 witness: two requests have read the same history and are both done; the
\* window has room for the turns of both, and the store holds those of one only
C14_Witness ==
    \E r1, r2 \in Reqs :
        /\ r1 # r2 /\ ChatDone(r1) /\ ChatDone(r2)
        /\ loc[r1].chat_id = loc[r2].chat_id
        /\ loc[r1].read = loc[r2].read
        /\ OpOk(r1, "get") /\ OpOk(r2, "get")
        /\ OpOk(r1, "put") /\ OpOk(r2, "put")
        /\ Len(loc[r1].read) + 4 <= max_turns
        /\ UserTurn(r1) # UserTurn(r2)
        /\ StoredHistory(loc[r1].chat_id) = loc[r1].read \o NewTurns(r1)
        /\ \A i \in 1..Len(StoredHistory(loc[r1].chat_id)) :
              StoredHistory(loc[r1].chat_id)[i] # UserTurn(r2)

\* C15: the calls of InMemoryStore made by the handlers of one process exclude
\* one another: no call raises (no KeyError from the eviction), at most one call
\* is between its first and its last statement, and while a get is between
\* reading the record and evicting it the map holds for its key the very record
\* it read, so that it evicts what it tested.
C15_StoreCallsExclusive ==
    /\ \A r \in Reqs : ~loc[r].raised
    /\ Cardinality({r \in Reqs : pc[r] \in {"l56", "l59"}}) <= 1
    /\ \A r \in Reqs :
          pc[r] \in {"l56", "l59"} => mem[loc[r].chat_id] = loc[r].rec

\* C15 witness: two gets of the same expired key have returned: the first has
\* evicted the record, the second has found none
C15_Witness ==
    \E r1, r2 \in Reqs :
        /\ pc[r1] = "returned" /\ pc[r2] = "returned"
        /\ loc[r1].op = "get" /\ loc[r2].op = "get"
        /\ loc[r1].chat_id = loc[r2].chat_id
        /\ loc[r1].rec # NoRec /\ loc[r1].rec.exp < loc[r1].t
        /\ loc[r2].rec = NoRec
        /\ loc[r1].ret = <<>> /\ loc[r2].ret = <<>>
        /\ ~loc[r1].raised /\ ~loc[r2].raised

\* C16: the history a store holds changes only by put, delete and the eviction
\* of an expired record: what a request got from get is its own copy, so after
\* it has appended its two turns and before its put, the store still holds for
\* its conversation the history that get returned; and every history a get
\* returns was put as it is.
C16_StoreOwnsHistory ==
    \A r \in Reqs :
        /\ (pc[r] = "put" /\ OpOk(r, "get")) =>
              /\ StoredHistory(loc[r].chat_id) = loc[r].read
              /\ loc[r].history = loc[r].read \o NewTurns(r)
        /\ Len(loc[r].read) <= Max(max_turns, 0)

\* C17: extract_bot_command returns for every message, whatever its text and
\* its entities, either a string or None and raises nothing; without a command
\* entity at offset 0 and without a first token that starts with '/', it
\* returns None.
C17_ExtractIsTotal ==
    fn_out.done =>
        /\ fn_out.val.kind \in {"str", "none"}
        /\ (/\ FirstCommandEntity(fn_in.entities) = 0
            /\ \A i \in 1..Len(fn_in.text) :
                  (\A j \in 1..(i - 1) : IsSpace(fn_in.text[j])) => fn_in.text[i] # "/") =>
              fn_out.val = CmdNone

IsLowerCase(s) == \A i \in 1..Len(s) : LowerChar(s[i]) = s[i]

\* C18: a command returned by extract_bot_command, by the entity path or the
\* plain-text path, is in lower case and holds no '@'; the case of the text does
\* not matter to the result; '/RESET' and '/Reset@MyBot' give '/reset', and with
\* it the same route and the same reply as the plain '/reset'.
C18_CommandNormalised ==
    fn_out.done =>
        /\ fn_out.val.kind = "str" =>
              /\ IsLowerCase(fn_out.val.val)
              /\ \A i \in 1..Len(fn_out.val.val) : fn_out.val.val[i] # "@"
        /\ fn_out.val = extract_bot_command([fn_in EXCEPT !.text = PyLower(@)])
        /\ fn_in \in {ExampleUpper, ExampleMixedQualified, ExampleQualified} =>
              /\ fn_out.val = extract_bot_command(Message(SlashReset, <<>>))
              /\ fn_out.val = CmdStr(SlashReset)
              /\ Route(fn_out.val) = "delete"
              /\ COMMAND_RESPONSES(fn_out.val.val) = ResetReply

\* C18 witness: '/Reset@MyBot' with its entity has given '/reset'
C18_Witness ==
    /\ fn_out.done
    /\ fn_in = ExampleMixedQualified
    /\ fn_out.val = CmdStr(SlashReset)

\* C19 as stated: every command extract_bot_command returns (a non-empty
\* string, which is what main takes to the command branch) begins with '/', and
\* so does the text of the message it was returned for.
C19_Original ==
    (fn_out.done /\ Truthy(fn_out.val)) =>
        /\ StartsWithSlash(fn_out.val.val)
        /\ StartsWithSlash(fn_in.text)

\* C19, amended: a command returned by the plain-text path begins with '/', and
\* it is the first whitespace-delimited token of the text that begins with it
\* (the text may begin with whitespace); a command returned by the entity path
\* begins with '/' exactly when the text does; a message goes to the command
\* branch only if it has a command entity at offset 0 or its first token begins
\* with '/'.
C19_CommandSources ==
    (fn_out.done /\ Truthy(fn_out.val)) =>
        LET text == fn_in.text
            first_token == {i \in 1..Len(text) :
                               ~IsSpace(text[i]) /\ \A j \in 1..(i - 1) : IsSpace(text[j])}
        IN  /\ Route(fn_out.val) \in {"delete", "cmd_send"}
            /\ FirstCommandEntity(fn_in.entities) = 0 =>
                  /\ StartsWithSlash(fn_out.val.val)
                  /\ \E i \in first_token : text[i] = "/"
            /\ FirstCommandEntity(fn_in.entities) # 0 =>
                  (StartsWithSlash(fn_out.val.val) <=> StartsWithSlash(text))

\* C19 witness: a text that begins with whitespace has given a command
C19_Witness ==
    /\ fn_out.done
    /\ fn_in = Message(<<" ", "/", "r">>, <<>>)
    /\ fn_out.val = CmdStr(<<"/", "r">>)

OpNames(r) == [i \in 1..Len(loc[r].ops) |-> loc[r].ops[i].op]

\* C20: a chat request makes its calls in the order get, completion, put, send,
\* each exactly once, whichever of them fail: at every point of the handler the
\* calls made so far are the beginning of that order, the put is made before
\* the send also when the completion failed, and the request ends with all four
\* made and HTTP 200.
C20_OrderNoRetry ==
    \A r \in Reqs :
        /\ pc[r] = "get" => OpNames(r) = <<>>
        /\ pc[r] = "complete" => OpNames(r) = <<"get">>
        /\ pc[r] \in {"append", "put"} => OpNames(r) = <<"get", "complete">>
        /\ pc[r] = "send" => OpNames(r) = <<"get", "complete", "put">>
        /\ (pc[r] = "done" /\ loc[r].msg # NoMessage /\ ~IsCommand(r) /\ loc[r].response # 500) =>
              /\ OpNames(r) = <<"get", "complete", "put", "send">>
              /\ Len(loc[r].posted) = 1
              /\ loc[r].response = 200

\* C20 witness: the completion and the put have failed, and each call was made once
C20_Witness ==
    \E r \in Reqs :
        /\ pc[r] = "done"
        /\ OpFailed(r, "complete") /\ OpFailed(r, "put")
        /\ OpNames(r) = <<"get", "complete", "put", "send">>
        /\ loc[r].posted = <<ErrorAnswer>>

====
